---- MODULE Spec2Model ----
(***************************************************************************)
(* Format handlers of the converter: HEICHandler (src/handlers/heic.ts),   *)
(* aniHandler and meydaHandler.  One handler instance is constructed; its  *)
(* init() and doConvert() are modelled with every await as a suspension    *)
(* point that the host later resolves or rejects.                          *)
(*                                                                         *)
(* Strings that the code inspects (file names, extensions) are sequences   *)
(* of one-character strings, so that the regular expressions, split() and  *)
(* padStart() are computed and not assumed.  Error messages are sequences  *)
(* of parts: the literal pieces of the template and the interpolated       *)
(* values.                                                                 *)
(***************************************************************************)
EXTENDS Integers, Sequences, FiniteSets, TLC

VARIABLES handler, playable, ready, supportedFormats, audioContext, canvas,
          ctx, probes, initResult, openBitmaps, call, other

vars == <<handler, playable, ready, supportedFormats, audioContext, canvas,
          ctx, probes, initResult, openBitmaps, call, other>>

unitVars ==
  <<ready, supportedFormats, audioContext, canvas, ctx, probes, initResult>>

(***************************************************************************)
(* Bounds of the model.                                                    *)
(***************************************************************************)
MaxFiles == 2
MaxFrames == 2
BurstFrames == 10
MaxProbes == 2
MaxOpenBitmaps == 1

(***************************************************************************)
(* Characters and strings.                                                 *)
(***************************************************************************)
Dot == "."

ToLowerCase(ch) ==
  CASE ch = "H" -> "h"
    [] ch = "E" -> "e"
    [] ch = "I" -> "i"
    [] ch = "C" -> "c"
    [] ch = "F" -> "f"
    [] ch = "M" -> "m"
    [] ch = "G" -> "g"
    [] OTHER -> ch

LowerStr(s) == [k \in 1..Len(s) |-> ToLowerCase(s[k])]

DotPositions(s) == {k \in 1..Len(s) : s[k] = Dot}

SetMax(S) == CHOOSE m \in S : \A k \in S : k <= m

SetMin(S) == CHOOSE m \in S : \A k \in S : m <= k

\* name.replace(/\.(heic|heif)$/i, "")
StripHeicExt(name) ==
  IF /\ Len(name) >= 5
     /\ name[Len(name) - 4] = Dot
     /\ LowerStr(SubSeq(name, Len(name) - 3, Len(name)))
          \in {<<"h", "e", "i", "c">>, <<"h", "e", "i", "f">>}
  THEN SubSeq(name, 1, Len(name) - 5)
  ELSE name

\* name.replace(/\.[^.]+$/, "")
StripLastExt(name) ==
  IF DotPositions(name) # {} /\ SetMax(DotPositions(name)) < Len(name)
  THEN SubSeq(name, 1, SetMax(DotPositions(name)) - 1)
  ELSE name

\* name.split(".")[0]
SplitDotFirst(name) ==
  IF DotPositions(name) # {}
  THEN SubSeq(name, 1, SetMin(DotPositions(name)) - 1)
  ELSE name

DigitChar(d) == <<"0", "1", "2", "3", "4", "5", "6", "7", "8", "9">>[d + 1]

RECURSIVE ToDecimal(_)
\* String(n) for an integer n >= 0
ToDecimal(n) ==
  IF n < 10 THEN <<DigitChar(n)>>
  ELSE Append(ToDecimal(n \div 10), DigitChar(n % 10))

RECURSIVE PadStart(_, _, _)
\* s.padStart(width, ch)
PadStart(s, width, ch) ==
  IF Len(s) >= width THEN s ELSE PadStart(<<ch>> \o s, width, ch)

\* mutant of FrameSuffix: the loop index i is formatted, not i + 1
FrameSuffixZeroBased(k) == PadStart(ToDecimal(k - 1), 3, "0")

\* String(i + 1).padStart(3, "0"), for the k-th frame (k = i + 1)
FrameSuffix(k) == PadStart(ToDecimal(k), 3, "0")

\* `${baseName}.${outputFormat.extension}`
SingleName(base, ext) == base \o <<Dot>> \o ext

\* `${baseName}_${String(i + 1).padStart(3, "0")}.${outputFormat.extension}`
FrameName(base, k, ext) == base \o <<"_">> \o FrameSuffix(k) \o <<Dot>> \o ext

(***************************************************************************)
(* Inputs: the files and format descriptors a caller may pass, and the     *)
(* answers the host may give.                                              *)
(***************************************************************************)
PhotoHeic == <<"p", "h", "o", "t", "o", ".", "h", "e", "i", "c">>

ImgHeifUpper == <<"I", "M", "G", ".", "1", ".", "H", "E", "I", "F">>

MySongWav == <<"m", "y", ".", "s", "o", "n", "g", ".", "w", "a", "v">>

Raw == <<"r", "a", "w">>

\* the file names a caller passes to each handler
FileNames(h) ==
  IF h = "heic2any" THEN {PhotoHeic, ImgHeifUpper, Raw}
  ELSE {MySongWav, Raw}

BytesOf(name) ==
  CASE name = PhotoHeic -> <<7, 7>>
    [] name = ImgHeifUpper -> <<1>>
    [] name = MySongWav -> <<2, 3>>
    [] OTHER -> <<>>

\* FileData { name, bytes }; buf is the identity of the buffer behind bytes
FileData(name, bytes, buf) == [name |-> name, bytes |-> bytes, buf |-> buf]

\* the batches a caller may pass: buffer k holds the k-th file's bytes
Batches(h) ==
  UNION {[1..n -> FileNames(h)] : n \in 0..MaxFiles}

InputFiles(names) ==
  [k \in 1..Len(names) |-> FileData(names[k], BytesOf(names[k]), k)]

\* FileFormat, reduced to the fields the handlers read
FileFormat(format, internal, extension) ==
  [format |-> format, internal |-> internal, extension |-> extension]

FormatsFor(h) ==
  CASE h = "heic2any" ->
         { FileFormat("heic", "heic", <<"h", "e", "i", "c">>),
           FileFormat("heif", "heif", <<"h", "e", "i", "f">>),
           FileFormat("png", "png", <<"p", "n", "g">>),
           FileFormat("jpeg", "jpeg", <<"j", "p", "e", "g">>) }
    [] h = "ani" ->
         { FileFormat("png", "apng", <<"p", "n", "g">>),
           FileFormat("ico", "ico", <<"i", "c", "o">>),
           FileFormat("ani", "ico", <<"a", "n", "i">>) }
    [] OTHER ->
         { FileFormat("png", "png", <<"p", "n", "g">>),
           FileFormat("jpeg", "jpeg", <<"j", "p", "g">>),
           FileFormat("wav", "wav", <<"w", "a", "v">>) }

Handlers == {"heic2any", "ani", "meyda"}

\* what dummy.canPlayType answers with a non-empty string for, on one host
PlayableChoices ==
  { {}, {"audio/wav"}, {"audio/mpeg", "audio/flac"},
    {"audio/wav", "audio/mpeg", "audio/ogg", "audio/flac"} }

\* err.message of a rejected host operation
Causes == {"bad data"}

\* heic2any resolves with one Blob or with an array of Blobs
Heic2anyResults ==
  {[isArray |-> FALSE, n |-> 1]}
    \cup {[isArray |-> TRUE, n |-> k] : k \in (0..MaxFrames) \cup {BurstFrames}}

\* the bytes the external codecs produce, opaque to the handlers
DecodedBytes(bytes, k) == <<10 + k>> \o bytes

EncodedBytes(bytes) == <<20>> \o bytes

RenderedBytes(width) == <<30, width>>

\* audioData.getChannelData(0).length, as the host decodes it
SampleLengths == {1000, 4096}

(***************************************************************************)
(* Capability descriptors of the three handlers.                           *)
(***************************************************************************)
Descriptor(format, internal, from, to) ==
  [format |-> format, internal |-> internal, from |-> from, to |-> to]

HeicFormats ==
  << Descriptor("heic", "heic", TRUE, TRUE),
     Descriptor("heif", "heif", TRUE, TRUE),
     Descriptor("png", "png", TRUE, TRUE),
     Descriptor("jpeg", "jpeg", TRUE, TRUE),
     Descriptor("webp", "webp", TRUE, TRUE) >>

AniFormats ==
  << Descriptor("png", "apng", TRUE, TRUE),
     Descriptor("ico", "ico", TRUE, TRUE),
     Descriptor("ani", "ico", TRUE, TRUE) >>

MeydaImageFormats ==
  << Descriptor("png", "png", FALSE, TRUE),
     Descriptor("jpeg", "jpeg", FALSE, TRUE),
     Descriptor("webp", "webp", FALSE, TRUE) >>

\* the four canPlayType probes of meydaHandler.init, in source order
MeydaAudioProbes ==
  << [mime |-> "audio/wav", d |-> Descriptor("wav", "wav", TRUE, FALSE)],
     [mime |-> "audio/mpeg", d |-> Descriptor("mp3", "mp3", TRUE, FALSE)],
     [mime |-> "audio/ogg", d |-> Descriptor("ogg", "ogg", TRUE, FALSE)],
     [mime |-> "audio/flac", d |-> Descriptor("flac", "flac", TRUE, FALSE)] >>

RECURSIVE PushPlayable(_, _, _)
\* if (dummy.canPlayType(mime)) this.supportedFormats.push(descriptor), four times
PushPlayable(list, k, canPlay) ==
  IF k > Len(MeydaAudioProbes) THEN list
  ELSE PushPlayable(
         IF MeydaAudioProbes[k].mime \in canPlay
         THEN Append(list, MeydaAudioProbes[k].d)
         ELSE list,
         k + 1, canPlay)

Defined(list) == [defined |-> TRUE, list |-> list]

Undefined == [defined |-> FALSE, list |-> <<>>]

InitialFormats(h) ==
  CASE h = "heic2any" -> Defined(HeicFormats)
    [] h = "ani" -> Undefined
    [] OTHER -> Defined(MeydaImageFormats)

\* painter is the call that last sized or drew on the canvas
NoCanvas == [id |-> 0, width |-> 0, height |-> 0, painter |-> 0]

\* document.createElement("canvas"): a new element of the default size
NewCanvas(id) == [id |-> id, width |-> 300, height |-> 150, painter |-> 0]

(***************************************************************************)
(* init(): no await inside, so each runs to completion in one step.        *)
(***************************************************************************)
HeicInit ==
  /\ handler = "heic2any"
  /\ ready' = TRUE
  /\ initResult' = "fulfilled"
  /\ UNCHANGED <<handler, playable, other, supportedFormats, audioContext, canvas,
                 ctx, probes, openBitmaps, call>>

AniInit ==
  /\ handler = "ani"
  /\ supportedFormats' = Defined(AniFormats)
  /\ ready' = TRUE
  /\ initResult' = "fulfilled"
  /\ UNCHANGED <<handler, playable, other, audioContext, canvas, ctx, probes,
                 openBitmaps, call>>

\* probes counts the calls of this init, each of which creates an AudioContext
\* and a canvas; getContext("2d") answers with a context (gotCtx) or with null
MeydaInit ==
  /\ handler = "meyda"
  /\ probes < MaxProbes
  /\ \E gotCtx \in BOOLEAN :
       /\ supportedFormats' =
            Defined(PushPlayable(supportedFormats.list, 1, playable))
       /\ audioContext' = probes + 1
       /\ canvas' = NewCanvas(probes + 1)
       /\ IF gotCtx
          THEN /\ ctx' = probes + 1
               /\ ready' = TRUE
               /\ initResult' = "fulfilled"
          ELSE /\ UNCHANGED <<ctx, ready>>
               /\ initResult' = "rejected"
  /\ probes' = probes + 1
  /\ UNCHANGED <<handler, playable, other, openBitmaps, call>>

(***************************************************************************)
(* Error messages: the literal pieces and the interpolated values.         *)
(***************************************************************************)
Lit(text) == [lit |-> text]

Val(chars) == [val |-> chars]

Cause(text) == [cause |-> text]

\* `Could not decode HEIC/HEIF file "${inputFile.name}": ${err?.message ?? err}`
DecodeHeicError(name, cause) ==
  <<Lit("Could not decode HEIC/HEIF file \""), Val(name), Lit("\": "),
    Cause(cause)>>

\* `Could not decode source image "${inputFile.name}": ${err?.message ?? err}`
SourceImageError(name, cause) ==
  <<Lit("Could not decode source image \""), Val(name), Lit("\": "),
    Cause(cause)>>

NoContextError == <<Lit("Failed to obtain 2D canvas context.")>>

EncodeUnsupportedError ==
  <<Lit("HEIC/HEIF encoding is not supported in this browser. "),
    Lit("Native encoding requires Safari on macOS (High Sierra or later) or iOS (11 or later). "),
    Lit("Consider converting to "), Lit("PNG"), Lit(" or "), Lit("JPEG"),
    Lit(" instead.")>>

NotInitializedError == <<Lit("Handler not initialized!")>>

\* decodeAudioData is awaited outside any try: its rejection is the error
AudioDecodeError(name, cause) == <<Cause(cause)>>

ExtractError == <<Lit("Failed to extract audio features!")>>

CanvasOutputError == <<Lit("Canvas output failed.")>>

(***************************************************************************)
(* One doConvert call.  pc names the await the call is suspended on.       *)
(***************************************************************************)
NoFormat == FileFormat("", "", <<>>)

\* what canvas.toBlob encodes: the canvas as it is when toBlob is called
Surface(cv) == [width |-> cv.width, painter |-> cv.painter]

IdleCall ==
  [ id |-> 0, pc |-> "idle", branch |-> "none", readyAtCall |-> FALSE,
    inputFiles |-> <<>>, inputFormat |-> NoFormat, outputFormat |-> NoFormat,
    i |-> 0, j |-> 0, blobs |-> <<>>, frames |-> <<>>, outputFiles |-> <<>>,
    ops |-> <<>>, allocs |-> 0, handed |-> {}, imageWidth |-> 0,
    surface |-> Surface(NoCanvas), value |-> <<>>, error |-> <<>> ]

\* id tells the call apart from the one it may overlap with
NewCall(branch, names, inF, outF) ==
  [ IdleCall EXCEPT !.id = IF other.id = 1 THEN 2 ELSE 1,
                    !.pc = "running", !.branch = branch,
                    !.readyAtCall = ready, !.inputFiles = InputFiles(names),
                    !.inputFormat = inF, !.outputFormat = outF ]

Settled == call.pc \in {"returned", "thrown"}

CanCall == call.pc = "idle"

\* the caller's await of the returned promise completes
TakeResult ==
  /\ Settled
  /\ call' = IdleCall
  /\ UNCHANGED <<handler, playable, other, unitVars, openBitmaps>>

\* ops is the history of the host operations of the call, with their answers.
\* An asynchronous operation is started for file i and awaited at pc
Invoke(c, op, i, pc) ==
  [c EXCEPT !.pc = pc, !.i = i,
            !.ops = Append(@, [op |-> op, file |-> i, answer |-> "pending"])]

\* the host answers the awaited operation
Answered(c, answer) == [c EXCEPT !.ops[Len(c.ops)].answer = answer]

\* a synchronous host operation and its answer
Sync(c, op, answer) ==
  [c EXCEPT !.ops = Append(@, [op |-> op, file |-> c.i, answer |-> answer])]

Return(c, files) == [c EXCEPT !.pc = "returned", !.value = files]

\* mutant of Throw: the failure is swallowed and what was accumulated returned
ThrowKeepsPartial(c, message) == Return(c, c.outputFiles)

Throw(c, message) == [c EXCEPT !.pc = "thrown", !.error = message]

\* mutant of Push: outputFiles.unshift({ name, bytes })
PushFront(c, name, bytes) ==
  [c EXCEPT !.outputFiles =
              <<FileData(name, bytes, Len(c.inputFiles) + c.allocs + 1)>> \o @,
            !.allocs = @ + 1]

\* outputFiles.push({ name, bytes }) with bytes a newly allocated array
Push(c, name, bytes) ==
  [c EXCEPT !.outputFiles =
              Append(@, FileData(name, bytes, Len(c.inputFiles) + c.allocs + 1)),
            !.allocs = @ + 1]

(***************************************************************************)
(* HEICHandler.doConvert                                                   *)
(***************************************************************************)
IsHeic(format) == format.internal = "heic" \/ format.internal = "heif"

HeicBranch(inF, outF) ==
  IF IsHeic(inF) /\ ~IsHeic(outF) THEN "decode"
  ELSE IF ~IsHeic(inF) /\ IsHeic(outF) THEN "encode"
  ELSE "passthrough"

\* mutant of Passthrough: new Uint8Array(f.bytes.length), a zero-filled array
PassthroughZeroFilled(files) ==
  [k \in 1..Len(files) |->
     FileData(files[k].name, [m \in 1..Len(files[k].bytes) |-> 0],
              Len(files) + k)]

\* inputFiles.map(f => ({ name: f.name, bytes: new Uint8Array(f.bytes) }))
Passthrough(files) ==
  [k \in 1..Len(files) |->
     FileData(files[k].name, files[k].bytes, Len(files) + k)]

\* top of the for loop of #decodeHeic for file i, or its return
DecodeFile(c, i) ==
  IF i > Len(c.inputFiles) THEN Return(c, c.outputFiles)
  ELSE Invoke(c, "heic2any", i, "heic2any")

\* top of the for loop of #encodeHeic for file i, or its return
EncodeFile(c, i) ==
  IF i > Len(c.inputFiles) THEN Return(c, c.outputFiles)
  ELSE Invoke(c, "createImageBitmap", i, "createImageBitmap")

HeicDoConvert ==
  /\ handler = "heic2any"
  /\ CanCall
  /\ openBitmaps < MaxOpenBitmaps
  /\ \E names \in Batches(handler), inF \in FormatsFor(handler), outF \in FormatsFor(handler) :
       LET c == NewCall(HeicBranch(inF, outF), names, inF, outF) IN
         call' = CASE c.branch = "decode" -> DecodeFile(c, 1)
                   [] c.branch = "encode" -> EncodeFile(c, 1)
                   [] OTHER -> Return(c, Passthrough(c.inputFiles))
  /\ UNCHANGED <<handler, playable, other, unitVars, openBitmaps>>

\* the name of the j-th of n blobs decoded from one input
DecodeOutputName(name, n, j, ext) ==
  IF n = 1 THEN SingleName(StripHeicExt(name), ext)
  ELSE FrameName(StripHeicExt(name), j, ext)

Heic2anyRejects ==
  /\ call.pc = "heic2any"
  /\ \E cause \in Causes :
       call' = Throw(Answered(call, "rejected"),
                     DecodeHeicError(call.inputFiles[call.i].name, cause))
  /\ UNCHANGED <<handler, playable, other, unitVars, openBitmaps>>

\* blobs = Array.isArray(result) ? result : [result], then the first arrayBuffer()
Heic2anyResolves ==
  /\ call.pc = "heic2any"
  /\ \E r \in Heic2anyResults :
       LET blobs == [k \in 1..r.n |->
                       DecodedBytes(call.inputFiles[call.i].bytes, k)]
           c == [Answered(call, "ok") EXCEPT !.blobs = blobs, !.j = 1,
                                             !.frames = Append(@, r.n)]
       IN call' = IF Len(blobs) = 0 THEN DecodeFile(c, call.i + 1)
                  ELSE Invoke(c, "arrayBuffer", call.i, "decodeArrayBuffer")
  /\ UNCHANGED <<handler, playable, other, unitVars, openBitmaps>>

DecodeArrayBufferResolves ==
  /\ call.pc = "decodeArrayBuffer"
  /\ LET c == Push(Answered(call, "ok"),
                   DecodeOutputName(call.inputFiles[call.i].name,
                                    Len(call.blobs), call.j,
                                    call.outputFormat.extension),
                   call.blobs[call.j])
     IN call' = IF call.j < Len(call.blobs)
                THEN Invoke([c EXCEPT !.j = call.j + 1], "arrayBuffer", call.i,
                            "decodeArrayBuffer")
                ELSE DecodeFile(c, call.i + 1)
  /\ UNCHANGED <<handler, playable, other, unitVars, openBitmaps>>

CreateImageBitmapRejects ==
  /\ call.pc = "createImageBitmap"
  /\ \E cause \in Causes :
       call' = Throw(Answered(call, "rejected"),
                     SourceImageError(call.inputFiles[call.i].name, cause))
  /\ UNCHANGED <<handler, playable, other, unitVars, openBitmaps>>

\* the bitmap is held from here; getContext("2d") answers a context or null;
\* with a context the bitmap is drawn and closed, and toBlob is called
CreateImageBitmapResolves ==
  /\ call.pc = "createImageBitmap"
  /\ \E gotCtx \in BOOLEAN :
       IF ~gotCtx
       THEN /\ call' = Throw(Sync(Answered(call, "ok"), "getContext", "null"),
                             NoContextError)
            /\ openBitmaps' = openBitmaps + 1
       ELSE /\ call' = Invoke(Sync(Answered(call, "ok"), "getContext", "ok"),
                              "toBlob", call.i, "encodeToBlob")
            /\ openBitmaps' = (openBitmaps + 1) - 1
  /\ UNCHANGED <<handler, playable, other, unitVars>>

\* canvas.toBlob calls back with a Blob, or with null
EncodeToBlobResolves ==
  /\ call.pc = "encodeToBlob"
  /\ \E gotBlob \in BOOLEAN :
       call' = IF ~gotBlob
               THEN Throw(Answered(call, "null"), EncodeUnsupportedError)
               ELSE Invoke([Answered(call, "ok") EXCEPT !.blobs =
                              <<EncodedBytes(call.inputFiles[call.i].bytes)>>],
                           "arrayBuffer", call.i, "encodeArrayBuffer")
  /\ UNCHANGED <<handler, playable, other, unitVars, openBitmaps>>

EncodeOutputName(name, ext) == SingleName(StripLastExt(name), ext)

EncodeArrayBufferResolves ==
  /\ call.pc = "encodeArrayBuffer"
  /\ call' = EncodeFile(
               Push(Answered(call, "ok"),
                    EncodeOutputName(call.inputFiles[call.i].name,
                                     call.outputFormat.extension),
                    call.blobs[1]),
               call.i + 1)
  /\ UNCHANGED <<handler, playable, other, unitVars, openBitmaps>>

(***************************************************************************)
(* aniHandler.doConvert: returns the empty outputFiles before any test     *)
(* of the formats; the branches and the throw below the return are dead.   *)
(***************************************************************************)
\* mutant of AniDoConvert: doConvert fills in supportedFormats and ready itself
AniDoConvertLazyInit ==
  /\ handler = "ani"
  /\ CanCall
  /\ \E names \in Batches(handler), inF \in FormatsFor(handler), outF \in FormatsFor(handler) :
       call' = Return(NewCall("ani", names, inF, outF), <<>>)
  /\ supportedFormats' = Defined(AniFormats)
  /\ ready' = TRUE
  /\ UNCHANGED <<handler, playable, other, audioContext, canvas, ctx, probes,
                 initResult, openBitmaps>>

AniDoConvert ==
  /\ handler = "ani"
  /\ CanCall
  /\ \E names \in Batches(handler), inF \in FormatsFor(handler), outF \in FormatsFor(handler) :
       call' = Return(NewCall("ani", names, inF, outF), <<>>)
  /\ UNCHANGED <<handler, playable, other, unitVars, openBitmaps>>

(***************************************************************************)
(* meydaHandler.doConvert                                                  *)
(***************************************************************************)
BufferSize == 2048

NotInitialized == ~ready \/ audioContext = 0 \/ canvas.id = 0 \/ ctx = 0

\* decodeAudioData detaches the ArrayBuffer it is given: every array that
\* views that buffer is empty from then on
Detach(files, buf) ==
  [k \in 1..Len(files) |->
     IF files[k].buf = buf THEN [files[k] EXCEPT !.bytes = <<>>] ELSE files[k]]

\* mutant of AudioBuffer: decodeAudioData(inputFile.bytes.buffer)
AudioBufferShared(c, i) == c.inputFiles[i].buf

\* inputBytes = new Uint8Array(inputFile.bytes); inputBytes.buffer is new
AudioBuffer(c, i) == Len(c.inputFiles) + c.allocs + 1

\* top of the for loop for file i (inputBytes is a new copy), or the return;
\* handed holds the buffers given to the decoder
MeydaFile(c, i) ==
  IF i > Len(c.inputFiles) THEN Return(c, c.outputFiles)
  ELSE Invoke([c EXCEPT !.allocs = @ + 1,
                        !.handed = @ \cup {AudioBuffer(c, i)},
                        !.inputFiles = Detach(@, AudioBuffer(c, i))],
              "decodeAudioData", i, "decodeAudioData")

\* the call up to its first await, or its throw at the guard
MeydaCall(names, inF, outF) ==
  LET c == NewCall("meyda", names, inF, outF) IN
    IF NotInitialized THEN Throw(c, NotInitializedError)
    ELSE MeydaFile(c, 1)

MeydaDoConvert ==
  /\ handler = "meyda"
  /\ CanCall
  /\ \E names \in Batches(handler), inF \in FormatsFor(handler), outF \in FormatsFor(handler) :
       call' = MeydaCall(names, inF, outF)
  /\ UNCHANGED <<handler, playable, other, unitVars, openBitmaps>>

DecodeAudioDataRejects ==
  /\ call.pc = "decodeAudioData"
  /\ \E cause \in Causes :
       call' = Throw(Answered(call, "rejected"),
                     AudioDecodeError(call.inputFiles[call.i].name, cause))
  /\ UNCHANGED <<handler, playable, other, unitVars, openBitmaps>>

\* mutant of DecodeAudioDataResolves: the call yields to the event loop
\* between the drawing of the columns and the call of toBlob
DecodeAudioDataResolvesYields ==
  \/ /\ call.pc = "decodeAudioData"
     /\ \E samples \in SampleLengths, extracted \in BOOLEAN :
          LET imageWidth == samples \div BufferSize
              imageHeight == BufferSize \div 2
          IN /\ imageWidth = 0 => extracted
             /\ canvas' = [canvas EXCEPT !.width = imageWidth,
                                         !.height = imageHeight,
                                         !.painter = call.id]
             /\ call' =
                  IF ~extracted
                  THEN Throw(Sync(Answered(call, "ok"), "Meyda.extract", "invalid"),
                             ExtractError)
                  ELSE [Answered(call, "ok") EXCEPT !.imageWidth = imageWidth,
                                                    !.pc = "drawn"]
     /\ UNCHANGED <<handler, playable, other, ready, supportedFormats,
                    audioContext, ctx, probes, initResult, openBitmaps>>
  \/ /\ call.pc = "drawn"
     /\ call' = Invoke([call EXCEPT !.surface = Surface(canvas),
                                    !.blobs = <<RenderedBytes(canvas.width)>>],
                       "toBlob", call.i, "meydaToBlob")
     /\ UNCHANGED <<handler, playable, other, unitVars, openBitmaps>>

\* the shared canvas is sized, one column is drawn per window, toBlob is called
\* on the canvas as it then is; no await lies between these statements.
\* Meyda.extract may answer with something that is no Float32Array
DecodeAudioDataResolves ==
  /\ call.pc = "decodeAudioData"
  /\ \E samples \in SampleLengths, extracted \in BOOLEAN :
       LET imageWidth == samples \div BufferSize
           imageHeight == BufferSize \div 2
       IN /\ imageWidth = 0 => extracted
          /\ canvas' = [canvas EXCEPT !.width = imageWidth,
                                      !.height = imageHeight,
                                      !.painter = call.id]
          /\ call' =
               IF ~extracted
               THEN Throw(Sync(Answered(call, "ok"), "Meyda.extract", "invalid"),
                          ExtractError)
               ELSE Invoke([Answered(call, "ok") EXCEPT
                              !.imageWidth = imageWidth,
                              !.surface = Surface(canvas'),
                              !.blobs = <<RenderedBytes(canvas'.width)>>],
                           "toBlob", call.i, "meydaToBlob")
  /\ UNCHANGED <<handler, playable, other, ready, supportedFormats,
                 audioContext, ctx, probes, initResult, openBitmaps>>

\* the toBlob callback: reject on null, else blob.arrayBuffer()
MeydaToBlobResolves ==
  /\ call.pc = "meydaToBlob"
  /\ \E gotBlob \in BOOLEAN :
       call' = IF ~gotBlob
               THEN Throw(Answered(call, "null"), CanvasOutputError)
               ELSE Invoke(Answered(call, "ok"), "arrayBuffer", call.i,
                           "meydaArrayBuffer")
  /\ UNCHANGED <<handler, playable, other, unitVars, openBitmaps>>

\* inputFile.name.split(".")[0] + "." + outputFormat.extension
MeydaOutputName(name, ext) == SplitDotFirst(name) \o <<Dot>> \o ext

MeydaArrayBufferResolves ==
  /\ call.pc = "meydaArrayBuffer"
  /\ call' = MeydaFile(
               Push(Answered(call, "ok"),
                    MeydaOutputName(call.inputFiles[call.i].name,
                                    call.outputFormat.extension),
                    call.blobs[1]),
               call.i + 1)
  /\ UNCHANGED <<handler, playable, other, unitVars, openBitmaps>>

(***************************************************************************)
(* The specification: one handler is constructed on one host.              *)
(***************************************************************************)
Init ==
  /\ handler \in Handlers
  /\ playable \in (IF handler = "meyda" THEN PlayableChoices ELSE {{}})
  /\ ready = FALSE
  /\ supportedFormats = InitialFormats(handler)
  /\ audioContext = 0
  /\ canvas = NoCanvas
  /\ ctx = 0
  /\ probes = 0
  /\ initResult = "none"
  /\ openBitmaps = 0
  /\ call = IdleCall
  /\ other = IdleCall

Next ==
  \/ HeicInit
  \/ AniInit
  \/ MeydaInit
  \/ HeicDoConvert
  \/ Heic2anyRejects
  \/ Heic2anyResolves
  \/ DecodeArrayBufferResolves
  \/ CreateImageBitmapRejects
  \/ CreateImageBitmapResolves
  \/ EncodeToBlobResolves
  \/ EncodeArrayBufferResolves
  \/ AniDoConvert
  \/ MeydaDoConvert
  \/ DecodeAudioDataRejects
  \/ DecodeAudioDataResolves
  \/ MeydaToBlobResolves
  \/ MeydaArrayBufferResolves
  \/ TakeResult

Spec == Init /\ [][Next]_vars

(***************************************************************************)
(* Two overlapping doConvert calls on one meydaHandler.  While a call is   *)
(* suspended on an await the event loop may run another caller, who        *)
(* invokes doConvert again; call is the call the next step belongs to and  *)
(* other is the one that waits meanwhile.                                  *)
(***************************************************************************)
OverlapBatches == {<<MySongWav>>}

OverlapFormat(key) == CHOOSE f \in FormatsFor("meyda") : f.internal = key

OverlapDoConvert ==
  /\ handler = "meyda"
  /\ CanCall
  /\ \E names \in OverlapBatches :
       call' = MeydaCall(names, OverlapFormat("wav"), OverlapFormat("png"))
  /\ UNCHANGED <<handler, playable, other, unitVars, openBitmaps>>

\* the event loop turns to the other call, or to a caller who will make one
Switch ==
  /\ call # other
  /\ call' = other
  /\ other' = call
  /\ UNCHANGED <<handler, playable, unitVars, openBitmaps>>

InitOverlap ==
  /\ Init
  /\ handler = "meyda"
  /\ playable = {"audio/wav"}

NextOverlap ==
  \/ MeydaInit
  \/ OverlapDoConvert
  \/ DecodeAudioDataRejects
  \/ DecodeAudioDataResolves
  \/ MeydaToBlobResolves
  \/ MeydaArrayBufferResolves
  \/ TakeResult
  \/ Switch

SpecOverlap == InitOverlap /\ [][NextOverlap]_vars

(***************************************************************************)
(* Vocabulary of the properties.                                           *)
(***************************************************************************)
Started == call.pc # "idle"

Returned == call.pc = "returned"

Thrown == call.pc = "thrown"

\* name ends with "." and ext, in any letter case
EndsWithExt(name, ext) ==
  /\ Len(name) > Len(ext)
  /\ name[Len(name) - Len(ext)] = Dot
  /\ LowerStr(SubSeq(name, Len(name) - Len(ext) + 1, Len(name))) = ext

\* name without its trailing extension, when that is one of exts
KnownBase(name, exts) ==
  IF \E e \in exts : EndsWithExt(name, e)
  THEN LET e == CHOOSE x \in exts : EndsWithExt(name, x)
       IN SubSeq(name, 1, Len(name) - Len(e) - 1)
  ELSE name

HeicExts == {<<"h", "e", "i", "c">>, <<"h", "e", "i", "f">>}

\* the three decimal digits of n < 1000
Padded3(n) ==
  <<DigitChar((n \div 100) % 10), DigitChar((n \div 10) % 10), DigitChar(n % 10)>>

RECURSIVE SumTo(_, _)
SumTo(seq, n) == IF n = 0 THEN 0 ELSE seq[n] + SumTo(seq, n - 1)

Parts(message) == {message[k] : k \in 1..Len(message)}

Failures == {"rejected", "null", "invalid"}

BothNative == IsHeic(call.inputFormat) /\ IsHeic(call.outputFormat)

(***************************************************************************)
(* C1  Passthrough payloads.  Whenever the HEIC handler was called with    *)
(* input and output both of internal key heic or heif, the call has        *)
(* returned one output per input, the k-th output holding exactly the      *)
(* bytes of the k-th input, and no host operation was invoked.             *)
(***************************************************************************)
C1_PassthroughPayloads ==
  (handler = "heic2any" /\ Started /\ BothNative) =>
    /\ Returned
    /\ Len(call.value) = Len(call.inputFiles)
    /\ \A k \in 1..Len(call.inputFiles) :
         call.value[k].bytes = call.inputFiles[k].bytes
    /\ call.ops = <<>>

C1_Witness ==
  /\ handler = "heic2any" /\ Returned /\ BothNative
  /\ call.inputFormat.internal # call.outputFormat.internal
  /\ Len(call.inputFiles) = 2
  /\ call.inputFiles[1].bytes = <<7, 7>>
  /\ call.inputFiles[2].bytes = <<1>>

(***************************************************************************)
(* C2  Passthrough naming, as claimed: every output of a passthrough is    *)
(* named by the input's base name and the output descriptor's extension    *)
(* (stated for the files that carry the input format's extension).         *)
(***************************************************************************)
C2_PassthroughNaming ==
  (handler = "heic2any" /\ Returned /\ BothNative) =>
    \A k \in 1..Len(call.inputFiles) :
      EndsWithExt(call.inputFiles[k].name, call.inputFormat.extension) =>
        call.value[k].name =
          KnownBase(call.inputFiles[k].name, {call.inputFormat.extension})
            \o <<Dot>> \o call.outputFormat.extension

(***************************************************************************)
(* C3  Classification error, as claimed: a call whose pair of formats      *)
(* matches none of decode, encode and passthrough (HEIC handler: neither   *)
(* key is heic or heif; ani handler: a pair outside the four listed ones)  *)
(* has thrown and returned nothing.                                        *)
(***************************************************************************)
AniListedPairs ==
  {<<"ani", "ico">>, <<"ico", "ani">>, <<"ani", "apng">>, <<"apng", "ani">>}

C3_ClassificationError ==
  /\ (/\ handler = "heic2any" /\ Started
      /\ ~IsHeic(call.inputFormat) /\ ~IsHeic(call.outputFormat))
       => (Thrown /\ call.value = <<>>)
  /\ (/\ handler = "ani" /\ Started
      /\ <<call.inputFormat.internal, call.outputFormat.internal>>
           \notin AniListedPairs)
       => (Thrown /\ call.value = <<>>)

(***************************************************************************)
(* C4  Readiness gate, as claimed: a call made while ready was false has   *)
(* thrown, returned no file and invoked no host operation.                 *)
(***************************************************************************)
C4_ReadinessGate ==
  (Started /\ ~call.readyAtCall) =>
    (Thrown /\ call.value = <<>> /\ call.ops = <<>>)

(***************************************************************************)
(* C5  All-or-nothing batch.  Whenever the host has rejected a decode,     *)
(* answered null for the canvas context or for toBlob, or failed to        *)
(* extract, the call has thrown, returns no file, that operation is the    *)
(* last one of the call and no operation was started for a later file.     *)
(***************************************************************************)
C5_AllOrNothing ==
  \A k \in 1..Len(call.ops) :
    call.ops[k].answer \in Failures =>
      /\ Thrown
      /\ call.value = <<>>
      /\ k = Len(call.ops)
      /\ \A m \in 1..Len(call.ops) : call.ops[m].file <= call.ops[k].file

C5_Witness ==
  /\ Thrown
  /\ Len(call.inputFiles) = 2
  /\ Len(call.ops) >= 1
  /\ call.ops[Len(call.ops)].file = 2
  /\ call.ops[Len(call.ops)].answer \in Failures
  /\ Len(call.outputFiles) >= 1

(***************************************************************************)
(* C6  Fan-out naming.  When the decode branch has returned, every input   *)
(* for which heic2any gave N >= 2 blobs has N consecutive outputs, the     *)
(* j-th holding the j-th blob and named <base>_<NNN>.<extension> with NNN  *)
(* the three digits of j, counted from 001 anew for each input.            *)
(***************************************************************************)
C6_FanOutNaming ==
  (call.branch = "decode" /\ Returned) =>
    \A i \in 1..Len(call.inputFiles) :
      call.frames[i] >= 2 =>
        \A j \in 1..call.frames[i] :
          LET out == call.value[SumTo(call.frames, i - 1) + j] IN
            /\ out.name = KnownBase(call.inputFiles[i].name, HeicExts)
                            \o <<"_">> \o Padded3(j) \o <<Dot>>
                            \o call.outputFormat.extension
            /\ out.bytes = DecodedBytes(call.inputFiles[i].bytes, j)

C6_Witness ==
  /\ call.branch = "decode" /\ Returned
  /\ call.frames = <<10, 2>>
  /\ Len(call.value) = 12
  /\ call.value[1].name =
       <<"p", "h", "o", "t", "o", "_", "0", "0", "1", ".", "p", "n", "g">>
  /\ call.value[10].name =
       <<"p", "h", "o", "t", "o", "_", "0", "1", "0", ".", "p", "n", "g">>
  /\ call.value[12].name =
       <<"I", "M", "G", ".", "1", "_", "0", "0", "2", ".", "p", "n", "g">>

(***************************************************************************)
(* C7  Single-result naming, as claimed: when a call has returned, every   *)
(* input that yielded exactly one output (a decode with one blob, every    *)
(* encode, every rendering of the meyda handler) has its output named      *)
(* <base>.<extension>, base being the input name without its known         *)
(* extension and with every other dot kept (stated for the files that      *)
(* carry the known extension; the passthrough is the matter of C2).        *)
(***************************************************************************)
KnownExts(c) ==
  IF c.branch = "decode" THEN HeicExts ELSE {c.inputFormat.extension}

\* the position in the returned batch of the single output of input i
SingleAt(c, i) == IF c.branch = "decode" THEN SumTo(c.frames, i) ELSE i

C7_SingleResultNaming ==
  (Returned /\ call.branch \in {"decode", "encode", "meyda"}) =>
    \A i \in 1..Len(call.inputFiles) :
      (/\ call.branch = "decode" => call.frames[i] = 1
       /\ \E e \in KnownExts(call) : EndsWithExt(call.inputFiles[i].name, e))
        => call.value[SingleAt(call, i)].name =
             KnownBase(call.inputFiles[i].name, KnownExts(call))
               \o <<Dot>> \o call.outputFormat.extension

(***************************************************************************)
(* C8  Decode failure names the file, as claimed: whenever heic2any,       *)
(* createImageBitmap or decodeAudioData has rejected, the call has thrown  *)
(* an error that contains the name of the file being decoded and the       *)
(* cause, and the operation was not started again.                         *)
(***************************************************************************)
DecodeOps == {"heic2any", "createImageBitmap", "decodeAudioData"}

C8_DecodeFailureNamesFile ==
  \A k \in 1..Len(call.ops) :
    (call.ops[k].op \in DecodeOps /\ call.ops[k].answer = "rejected") =>
      /\ Thrown
      /\ Val(call.inputFiles[call.ops[k].file].name) \in Parts(call.error)
      /\ \E cause \in Causes : Cause(cause) \in Parts(call.error)
      /\ k = Len(call.ops)

(***************************************************************************)
(* C9  Host-unavailable encode, as claimed: whenever toBlob has answered   *)
(* null, the call has thrown an error that names at least one concrete     *)
(* fallback format, and returns no file.                                   *)
(***************************************************************************)
FormatWords == {Lit("PNG"), Lit("JPEG"), Lit("WebP")}

C9_HostUnavailableEncode ==
  \A k \in 1..Len(call.ops) :
    (call.ops[k].op = "toBlob" /\ call.ops[k].answer = "null") =>
      /\ Thrown
      /\ call.value = <<>>
      /\ Parts(call.error) \cap FormatWords # {}

(***************************************************************************)
(* C10  Resource release, as claimed: whenever no call of the HEIC handler *)
(* is in flight (none made yet, returned, or thrown), no bitmap is held.   *)
(***************************************************************************)
C10_BitmapsReleased ==
  (handler = "heic2any" /\ (call.pc = "idle" \/ Settled)) => openBitmaps = 0

(***************************************************************************)
(* C11  Probe never partially commits, as claimed: a step in which init    *)
(* fails leaves ready and the capability set as they were before it.       *)
(***************************************************************************)
ProbeFails == probes' = probes + 1 /\ initResult' = "rejected"

C11_ProbeNeverPartiallyCommits ==
  [][ProbeFails => (ready' = ready /\ supportedFormats' = supportedFormats)]_vars

(***************************************************************************)
(* C12  Double-probe guard, as claimed: whatever the number of init calls, *)
(* no descriptor occurs twice in the capability set.                       *)
(***************************************************************************)
NoDuplicates(list) ==
  \A k, m \in 1..Len(list) : list[k] = list[m] => k = m

C12_DoubleProbeGuard == NoDuplicates(supportedFormats.list)


(***************************************************************************)
(* C13  One-directional analysis unit, as claimed: in every state of the   *)
(* meyda handler every image descriptor has to and not from, every audio   *)
(* descriptor has from and not to, none has both, and a call that has      *)
(* returned at least one file was given an audio input format and an       *)
(* image output format.                                                    *)
(***************************************************************************)
ImageKeys == {"png", "jpeg", "webp"}

AudioKeys == {"wav", "mp3", "ogg", "flac"}

OneDirectionalFlags ==
  \A k \in 1..Len(supportedFormats.list) :
    LET d == supportedFormats.list[k] IN
      /\ d.internal \in ImageKeys => (d.to /\ ~d.from)
      /\ d.internal \in AudioKeys => (d.from /\ ~d.to)
      /\ ~(d.from /\ d.to)

C13_OneDirectional ==
  handler = "meyda" =>
    /\ OneDirectionalFlags
    /\ (Returned /\ Len(call.value) >= 1) =>
         /\ call.inputFormat.internal \in AudioKeys
         /\ call.outputFormat.internal \in ImageKeys


(***************************************************************************)
(* C14  Branch selection, as claimed: a call of the HEIC handler runs      *)
(* exactly one branch; it is the decode branch exactly when the input key  *)
(* is heic or heif and the output key is not, the encode branch exactly    *)
(* when the output key is and the input key is not, and the passthrough    *)
(* exactly when both keys are.                                             *)
(***************************************************************************)
HeicBranches == {"decode", "encode", "passthrough"}

C14_BranchSelection ==
  (handler = "heic2any" /\ Started) =>
    /\ call.branch \in HeicBranches
    /\ call.branch = "decode"
         <=> (IsHeic(call.inputFormat) /\ ~IsHeic(call.outputFormat))
    /\ call.branch = "encode"
         <=> (~IsHeic(call.inputFormat) /\ IsHeic(call.outputFormat))
    /\ call.branch = "passthrough" <=> BothNative


(***************************************************************************)
(* C15  Sequential batch processing.  In every state of a call at most one *)
(* host operation is unanswered and it is the one invoked last, the        *)
(* operations are invoked in the order of the files they are for, and a    *)
(* returned batch of the decode, encode and meyda paths lists the outputs  *)
(* in the order of the input files, the frames of one file in frame order. *)
(***************************************************************************)
\* the name up to its first dot
Stem(name) ==
  IF DotPositions(name) = {} THEN name
  ELSE SubSeq(name, 1, SetMin(DotPositions(name)) - 1)

IsPrefix(p, s) == Len(p) <= Len(s) /\ SubSeq(s, 1, Len(p)) = p

FromInput(out, in) == IsPrefix(Stem(in.name), out.name)

OneOutstanding ==
  \A k \in 1..Len(call.ops) :
    call.ops[k].answer = "pending" => k = Len(call.ops)

FileOrder ==
  \A k, m \in 1..Len(call.ops) :
    k < m => call.ops[k].file <= call.ops[m].file

OutputOrder ==
  /\ (Returned /\ call.branch \in {"encode", "meyda"}) =>
       /\ Len(call.value) = Len(call.inputFiles)
       /\ \A k \in 1..Len(call.value) :
            FromInput(call.value[k], call.inputFiles[k])
  /\ (Returned /\ call.branch = "decode") =>
       /\ Len(call.frames) = Len(call.inputFiles)
       /\ Len(call.value) = SumTo(call.frames, Len(call.frames))
       /\ \A i \in 1..Len(call.inputFiles) :
            \A j \in 1..call.frames[i] :
              LET out == call.value[SumTo(call.frames, i - 1) + j] IN
                /\ FromInput(out, call.inputFiles[i])
                /\ out.bytes[1] = 10 + j

C15_SequentialBatch == OneOutstanding /\ FileOrder /\ OutputOrder

C15_Witness ==
  /\ Returned /\ call.branch = "decode"
  /\ Len(call.inputFiles) = 2
  /\ call.inputFiles[1].name # call.inputFiles[2].name
  /\ call.frames = <<2, 1>>
  /\ Len(call.ops) = 5


(***************************************************************************)
(* C16  Output cardinality, as claimed: a call that has returned on a      *)
(* batch of n files holds at least n files, exactly n on the encode,       *)
(* passthrough and meyda paths and the sum of the per-file result counts   *)
(* on the decode path, each of these counts being at least one.            *)
(***************************************************************************)
C16_OutputCardinality ==
  Returned =>
    /\ Len(call.value) >= Len(call.inputFiles)
    /\ call.branch \in {"encode", "passthrough", "meyda"} =>
         Len(call.value) = Len(call.inputFiles)
    /\ call.branch = "decode" =>
         /\ Len(call.value) = SumTo(call.frames, Len(call.frames))
         /\ \A i \in 1..Len(call.frames) : call.frames[i] >= 1


(***************************************************************************)
(* C17  Ready implies fully probed, as claimed: in every state in which    *)
(* ready is true an init has run, the capability set is defined, and the   *)
(* meyda handler holds an audio context, a canvas and the 2D context of    *)
(* that canvas.                                                            *)
(***************************************************************************)
C17_ReadyImpliesProbed ==
  ready =>
    /\ initResult # "none"
    /\ supportedFormats.defined
    /\ handler = "meyda" =>
         /\ audioContext # 0
         /\ canvas.id # 0
         /\ ctx = canvas.id


(***************************************************************************)
(* C18  Convert leaves the declared state unchanged: every step of a       *)
(* doConvert call, from its invocation to its return or throw, on every    *)
(* handler and branch, leaves ready and supportedFormats as they were;     *)
(* they change only in steps of init.                                      *)
(***************************************************************************)
ConvertStep == call' # call

C18_ConvertLeavesDeclaredState ==
  [][ConvertStep => (ready' = ready /\ supportedFormats' = supportedFormats)]_vars

C18_Witness ==
  /\ handler = "meyda" /\ Settled /\ call.readyAtCall /\ ready
  /\ Len(call.ops) >= 3
  /\ Len(supportedFormats.list) > Len(MeydaImageFormats)


(***************************************************************************)
(* C19  Inputs are read-only and outputs are fresh.  In every state of a   *)
(* call, whatever its branch and outcome, every input file still has the   *)
(* payload it was passed with in the buffer it was passed in, no output    *)
(* accumulated or returned lives in the buffer of an input, and no buffer  *)
(* given to the audio decoder is the buffer of an input.                   *)
(***************************************************************************)
InputBufs == {call.inputFiles[k].buf : k \in 1..Len(call.inputFiles)}

OutputBufs ==
  {call.value[k].buf : k \in 1..Len(call.value)}
    \cup {call.outputFiles[k].buf : k \in 1..Len(call.outputFiles)}

C19_InputsReadOnlyOutputsFresh ==
  Started =>
    /\ \A k \in 1..Len(call.inputFiles) :
         /\ call.inputFiles[k].name \in FileNames(handler)
         /\ call.inputFiles[k].bytes = BytesOf(call.inputFiles[k].name)
         /\ call.inputFiles[k].buf = k
    /\ OutputBufs \cap InputBufs = {}
    /\ call.handed \cap InputBufs = {}

C19_Witness ==
  /\ handler = "meyda" /\ Returned
  /\ Len(call.inputFiles) = 2 /\ Len(call.value) = 2
  /\ \A k \in 1..2 : call.inputFiles[k].bytes = <<2, 3>>
  /\ Cardinality(call.handed) = 2


(***************************************************************************)
(* C20  No interleaved use of the shared rendering surface.  With two      *)
(* calls of one meyda handler overlapping, what a call asks toBlob to      *)
(* encode for a file is the canvas as that call sized and drew it for that *)
(* file: no other call has sized or drawn on the canvas in between.        *)
(***************************************************************************)
OwnSurface(c) ==
  c.pc \in {"meydaToBlob", "meydaArrayBuffer"} =>
    /\ c.surface = [width |-> c.imageWidth, painter |-> c.id]
    /\ c.blobs = <<RenderedBytes(c.imageWidth)>>

C20_NoInterleavedSurfaceUse ==
  handler = "meyda" => (OwnSurface(call) /\ OwnSurface(other))

C20_Witness ==
  /\ call.pc = "meydaToBlob" /\ other.pc = "meydaToBlob"
  /\ call.id # other.id
  /\ call.imageWidth # other.imageWidth
  /\ canvas.painter = other.id

====
